---- MODULE Spec2Model ----
(***************************************************************************)
(* DALI e-commerce backend: cart, voucher, checkout and order lifecycle.   *)
(*                                                                         *)
(* The relational store (products, cart_items, vouchers, voucher_usage,    *)
(* orders with their items / pickup / history) and the signed-cookie       *)
(* session (user_email, cart, applied_voucher, checkoutDetails) are the    *)
(* state.  One action per HTTP handler or service entry point.  Money is   *)
(* kept in whole pesos; the seeded prices and voucher values are chosen so *)
(* that every percentage the code computes is a whole number.              *)
(***************************************************************************)
EXTENDS Integers, Sequences, FiniteSets, TLC

\* ------------------------------------------------------------------------
\* Bounds of the model
\* ------------------------------------------------------------------------
MaxOrders == 2          \* orders rows the model lets checkout create
MaxQty == 1             \* largest quantity one add-to-cart request asks for
MaxStock == 2           \* cap on the stock a cancellation restores
MaxNow == 3             \* last instant of the clock
MaxHistory == 3         \* order_history rows kept per order

\* Python None / SQL NULL
NULL == -1000

\* ------------------------------------------------------------------------
\* Seed data: the rows the database holds before the first request
\* ------------------------------------------------------------------------
Products == {1, 2}
Accounts == {1, 2}
Addresses == {1, 2, 3}
Stores == {1}
Sessions == {1, 2}
Codes == {"SAVE"}

\* addresses.account_id
AddressAccount == <<1, 2, 1>>
\* geodesic distance warehouse -> address in km; NULL: no coordinates
AddressKm == <<1, NULL, 2>>
\* products.product_price / product_discount_price / is_on_sale as seeded
SeedPrice == <<100, 200>>
SeedDiscountPrice == <<NULL, 150>>
SeedOnSale == <<FALSE, TRUE>>
\* products.product_quantity as seeded
SeedStock == <<2, 1>>

PaymentStatus == {"PENDING", "PAID", "CANCELLED", "REFUNDED"}
ShippingStatus == {"PROCESSING", "PREPARING_FOR_SHIPMENT", "IN_TRANSIT",
                   "DELIVERED", "COLLECTED", "CANCELLED", "DELIVERY_FAILED"}
DeliveryMethods == {"Standard Delivery", "Priority Delivery", "Pickup Delivery"}
PaymentMethods == {"Cash on delivery (COD)", "Maya", "Credit/Debit Card"}

\* ShippingService constants
BASE_RATE == 50
PER_KM_RATE == 20
PRIORITY_FEE_ADDITION == 100

VARIABLES
    products,       \* products table: product_id -> row
    cart_items,     \* cart_items table: account_id -> product_id -> quantity (0: no row)
    vouchers,       \* vouchers table: voucher_code -> row, or NoVoucher
    voucher_usage,  \* voucher_usage table: sequence of rows in insertion order
    orders,         \* orders table with items, pickup and history: order_id -> row
    session,        \* session cookie per browser session
    now,            \* datetime.utcnow()
    txn,            \* per session: the create_order transaction in flight
    last,           \* the response to the latest request
    audit           \* history variable, per order: the stock before it was placed
                    \* and whether anything but its own first cancellation has
                    \* written the stock of its products since

vars == <<products, cart_items, vouchers, voucher_usage, orders, session, now, txn, last, audit>>

\* ------------------------------------------------------------------------
\* Helpers
\* ------------------------------------------------------------------------
Min(a, b) == IF a < b THEN a ELSE b

\* Python truthiness of an optional number: None and 0 are both false
Truthy(x) == x # NULL /\ x # 0

RECURSIVE SumOver(_, _)
SumOver(f, S) ==
    IF S = {} THEN 0
    ELSE LET x == CHOOSE y \in S : TRUE IN f[x] + SumOver(f, S \ {x})

NoVoucher == [exists |-> FALSE]
NoSlot == [voucher_code |-> "NONE", discount_amount |-> 0]
NoTxn == [pc |-> "idle"]
EmptyCart == [p \in Products |-> 0]
EmptyCheckout == [addressId |-> NULL, deliveryMethod |-> "NONE", shippingFee |-> NULL,
                  storeId |-> NULL, paymentMethod |-> "NONE"]
EmptySession == [user_email |-> NULL, cart |-> EmptyCart,
                 applied_voucher |-> NoSlot, checkoutDetails |-> EmptyCheckout]

Resp(op, s, status, detail) == [op |-> op, session |-> s, status |-> status, detail |-> detail]

\* security.get_current_user: the account of the session, or None
CurrentUser(s) == session[s].user_email

\* the price charged for one unit: sale price if on sale, else list price
EffectivePrice(prod) ==
    IF prod.is_on_sale /\ prod.product_discount_price # NULL
    THEN prod.product_discount_price
    ELSE prod.product_price

\* CartService.get_cart_items: product -> quantity of the cart that owns the request
CartOf(s, user) == IF user # NULL THEN cart_items[user] ELSE session[s].cart

CartLines(cart) == {p \in Products : cart[p] > 0}

\* CartService.get_cart_total over a cart and a snapshot of the products table
CartTotal(cart, prods) ==
    SumOver([p \in Products |-> EffectivePrice(prods[p]) * cart[p]], CartLines(cart))

\* ShippingService.calculate_shipping_fee
CalculateShippingFee(address, method) ==
    IF AddressKm[address] = NULL THEN BASE_RATE
    ELSE BASE_RATE + AddressKm[address] * PER_KM_RATE
         + (IF method = "Priority Delivery" THEN PRIORITY_FEE_ADDITION ELSE 0)

\* the discount formula shared by apply_voucher, get_cart and create_order
CalcDiscount(v, subtotal) ==
    IF v.discount_type = "percentage"
    THEN LET d == (subtotal * v.discount_value) \div 100
         IN IF Truthy(v.max_discount_amount) THEN Min(d, v.max_discount_amount) ELSE d
    ELSE Min(v.discount_value, subtotal)

UsageRows(code, account) ==
    {i \in DOMAIN voucher_usage :
        voucher_usage[i].voucher_code = code /\ voucher_usage[i].account_id = account}

\* ------------------------------------------------------------------------
\* Initial state
\* ------------------------------------------------------------------------
Init ==
    /\ products = [p \in Products |->
                     [product_price |-> SeedPrice[p],
                      product_discount_price |-> SeedDiscountPrice[p],
                      is_on_sale |-> SeedOnSale[p],
                      product_quantity |-> SeedStock[p]]]
    /\ cart_items = [a \in Accounts |-> EmptyCart]
    /\ vouchers = [c \in Codes |-> NoVoucher]
    /\ voucher_usage = <<>>
    /\ orders = <<>>
    /\ session = [s \in Sessions |-> EmptySession]
    /\ now = 1
    /\ txn = [s \in Sessions |-> NoTxn]
    /\ last = Resp("none", 0, 0, "")
    /\ audit = <<>>

\* ------------------------------------------------------------------------
\* Session and cart handlers
\* ------------------------------------------------------------------------

\* CartService.merge_session_cart_with_db_cart.  The lookup filters on
\* Account.email, a plain Python property: on the class the comparison is
\* False, the query selects no row and the function returns before merging.
MergeSessionCart(s, account) ==
    LET user == NULL
    IN IF user = NULL
       THEN [db_cart |-> cart_items[account], session_cart |-> session[s].cart]
       ELSE [db_cart |-> [p \in Products |-> cart_items[account][p] + session[s].cart[p]],
             session_cart |-> EmptyCart]

\* POST /api/auth/login with valid credentials of a verified account
Login(s, a) ==
    LET m == MergeSessionCart(s, a)
    IN /\ session' = [session EXCEPT ![s].user_email = a, ![s].cart = m.session_cart]
       /\ cart_items' = [cart_items EXCEPT ![a] = m.db_cart]
       /\ last' = Resp("login", s, 200, "ok")
       /\ UNCHANGED <<products, vouchers, voucher_usage, orders, now, txn, audit>>

\* POST /api/auth/logout: request.session.clear()
Logout(s) ==
    /\ session' = [session EXCEPT ![s] = EmptySession]
    /\ last' = Resp("logout", s, 200, "ok")
    /\ UNCHANGED <<products, cart_items, vouchers, voucher_usage, orders, now, txn, audit>>

\* POST /api/cart/items -> CartService.add_to_cart
AddToCart(s, p, q) ==
    LET user == CurrentUser(s)
        current_cart_qty == CartOf(s, user)[p]
        total_requested == current_cart_qty + q
    IN /\ q >= 1
       /\ IF total_requested > products[p].product_quantity
          THEN /\ last' = Resp("add_to_cart", s, 400, "no more stock")
               /\ UNCHANGED <<cart_items, session>>
          ELSE /\ last' = Resp("add_to_cart", s, 200, "ok")
               /\ IF user # NULL
                  THEN /\ cart_items' = [cart_items EXCEPT ![user][p] = total_requested]
                       /\ UNCHANGED session
                  ELSE /\ session' = [session EXCEPT ![s].cart[p] = total_requested]
                       /\ UNCHANGED cart_items
       /\ UNCHANGED <<products, vouchers, voucher_usage, orders, now, txn, audit>>

\* DELETE /api/cart/items/{product_id} -> CartService.remove_from_cart
RemoveFromCart(s, p) ==
    LET user == CurrentUser(s)
    IN /\ IF user # NULL
          THEN /\ cart_items' = [cart_items EXCEPT ![user][p] = 0]
               /\ UNCHANGED session
          ELSE /\ session' = [session EXCEPT ![s].cart[p] = 0]
               /\ UNCHANGED cart_items
       /\ last' = Resp("remove_from_cart", s, 200, "ok")
       /\ UNCHANGED <<products, vouchers, voucher_usage, orders, now, txn, audit>>

\* ------------------------------------------------------------------------
\* Voucher handlers of the cart router
\* ------------------------------------------------------------------------

\* the rejection apply_voucher raises, first match wins; "ok" when none
ApplyVoucherCheck(code, user, subtotal) ==
    LET v == vouchers[code]
    IN IF v = NoVoucher THEN "Voucher code not found"
       ELSE IF ~v.is_active THEN "This voucher is no longer active"
       ELSE IF now < v.valid_from THEN "This voucher is not yet valid"
       ELSE IF now > v.valid_until THEN "This voucher has expired"
       ELSE IF Truthy(v.usage_limit) /\ v.usage_count >= v.usage_limit
            THEN "This voucher has reached its usage limit"
       ELSE IF user # NULL /\ UsageRows(code, user) # {}
            THEN "You have already used this voucher"
       ELSE IF subtotal = 0 THEN "Cannot apply voucher to an empty cart"
       ELSE IF Truthy(v.min_purchase_amount) /\ subtotal < v.min_purchase_amount
            THEN "Minimum purchase required"
       ELSE "ok"

\* POST /api/cart/apply-voucher
ApplyVoucher(s, code) ==
    LET user == CurrentUser(s)
        subtotal == CartTotal(CartOf(s, user), products)
        check == ApplyVoucherCheck(code, user, subtotal)
    IN /\ IF check = "ok"
          THEN /\ session' = [session EXCEPT ![s].applied_voucher =
                    [voucher_code |-> code,
                     discount_amount |-> CalcDiscount(vouchers[code], subtotal)]]
               /\ last' = Resp("apply_voucher", s, 200, "ok")
          ELSE /\ last' = Resp("apply_voucher", s,
                               IF check = "Voucher code not found" THEN 404 ELSE 400, check)
               /\ UNCHANGED session
       /\ UNCHANGED <<products, cart_items, vouchers, voucher_usage, orders, now, txn, audit>>

\* DELETE /api/cart/remove-voucher
RemoveVoucher(s) ==
    /\ session' = [session EXCEPT ![s].applied_voucher = NoSlot]
    /\ last' = Resp("remove_voucher", s, 200, "ok")
    /\ UNCHANGED <<products, cart_items, vouchers, voucher_usage, orders, now, txn, audit>>

\* the voucher slot after GET /api/cart has re-validated it against the cart
GetCartSlot(slot, subtotal) ==
    LET v == vouchers[slot.voucher_code]
    IN IF slot = NoSlot THEN NoSlot
       ELSE IF v # NoVoucher /\ v.is_active
       THEN IF Truthy(v.min_purchase_amount) /\ subtotal < v.min_purchase_amount
            THEN NoSlot
            ELSE [slot EXCEPT !.discount_amount = CalcDiscount(v, subtotal)]
       ELSE NoSlot

\* GET /api/cart
GetCart(s) ==
    LET user == CurrentUser(s)
        subtotal == CartTotal(CartOf(s, user), products)
    IN /\ session' = [session EXCEPT ![s].applied_voucher =
                         GetCartSlot(session[s].applied_voucher, subtotal)]
       /\ last' = Resp("get_cart", s, 200, "ok")
       /\ UNCHANGED <<products, cart_items, vouchers, voucher_usage, orders, now, txn, audit>>

\* ------------------------------------------------------------------------
\* Checkout router: address and shipping steps
\* ------------------------------------------------------------------------

\* POST /api/checkout/address
SetAddress(s, a) ==
    LET user == CurrentUser(s)
    IN /\ IF user = NULL
          THEN /\ last' = Resp("set_address", s, 401, "Not authenticated")
               /\ UNCHANGED session
          ELSE IF AddressAccount[a] # user
          THEN /\ last' = Resp("set_address", s, 404, "Address not found")
               /\ UNCHANGED session
          ELSE /\ session' = [session EXCEPT ![s].checkoutDetails.addressId = a]
               /\ last' = Resp("set_address", s, 200, "ok")
       /\ UNCHANGED <<products, cart_items, vouchers, voucher_usage, orders, now, txn, audit>>

\* POST /api/checkout/shipping
SetShipping(s, method, store_id) ==
    LET user == CurrentUser(s)
        details == session[s].checkoutDetails
    IN /\ IF user = NULL
          THEN /\ last' = Resp("set_shipping", s, 401, "Not authenticated")
               /\ UNCHANGED session
          ELSE IF details.addressId = NULL
          THEN /\ last' = Resp("set_shipping", s, 400, "Please select an address first")
               /\ UNCHANGED session
          ELSE IF method = "Pickup Delivery"
          THEN IF ~Truthy(store_id)
               THEN /\ last' = Resp("set_shipping", s, 400, "Please select a pickup store")
                    /\ UNCHANGED session
               ELSE IF store_id \notin Stores
               THEN /\ last' = Resp("set_shipping", s, 404, "Store not found")
                    /\ UNCHANGED session
               ELSE /\ session' = [session EXCEPT ![s].checkoutDetails =
                            [details EXCEPT !.storeId = store_id, !.shippingFee = 0,
                                            !.deliveryMethod = method]]
                    /\ last' = Resp("set_shipping", s, 200, "ok")
          ELSE /\ session' = [session EXCEPT ![s].checkoutDetails =
                       [details EXCEPT !.storeId = NULL,
                                       !.shippingFee = CalculateShippingFee(details.addressId, method),
                                       !.deliveryMethod = method]]
               /\ last' = Resp("set_shipping", s, 200, "ok")
       /\ UNCHANGED <<products, cart_items, vouchers, voucher_usage, orders, now, txn, audit>>

\* ------------------------------------------------------------------------
\* OrderService.create_order / create_pending_order
\* ------------------------------------------------------------------------

\* the cart lines in the order the loops visit them
RECURSIVE LinesSeq(_)
LinesSeq(S) ==
    IF S = {} THEN <<>>
    ELSE LET p == CHOOSE x \in S : \A y \in S : x <= y
         IN <<p>> \o LinesSeq(S \ {p})

\* what a checkout transaction has read: the rows behind the ORM objects it
\* holds from its queries until it flushes
ReadSnapshot(s, payment_method) ==
    LET user == CurrentUser(s)
        slot == session[s].applied_voucher
    IN [user |-> user,
        cart |-> cart_items[user],
        prods |-> products,
        slot |-> slot,
        voucher |-> IF slot = NoSlot THEN NoVoucher ELSE vouchers[slot.voucher_code],
        used |-> slot # NoSlot /\ UsageRows(slot.voucher_code, user) # {},
        now |-> now,
        details |-> [session[s].checkoutDetails EXCEPT !.paymentMethod = payment_method]]

NoOrderVoucher == [voucher_code |-> "NONE", voucher_discount |-> 0]

\* create_order that keeps the code and the discount of the session slot
OrderVoucherNoRevalidation(snap, subtotal) ==
    IF snap.slot = NoSlot THEN NoOrderVoucher
    ELSE [voucher_code |-> snap.slot.voucher_code,
          voucher_discount |-> snap.slot.discount_amount]

\* create_order: the voucher code and discount the order is created with
OrderVoucher(snap, subtotal) ==
    LET v == snap.voucher
    IN IF snap.slot = NoSlot THEN NoOrderVoucher
       ELSE IF v # NoVoucher /\ v.is_active
       THEN IF v.valid_from <= snap.now /\ snap.now <= v.valid_until
            THEN IF snap.used THEN NoOrderVoucher
                 ELSE IF Truthy(v.usage_limit) /\ v.usage_count >= v.usage_limit
                 THEN NoOrderVoucher
                 ELSE [voucher_code |-> snap.slot.voucher_code,
                       voucher_discount |-> CalcDiscount(v, subtotal)]
            ELSE NoOrderVoucher
       ELSE NoOrderVoucher

\* create_pending_order: the voucher code and discount taken from the session slot
PendingOrderVoucher(snap) ==
    IF snap.slot = NoSlot THEN NoOrderVoucher
    ELSE [voucher_code |-> snap.slot.voucher_code,
          voucher_discount |-> snap.slot.discount_amount]

\* a fee computed again from the address and the method at order creation
ShippingFeeOfAddress(details) ==
    CalculateShippingFee(details.addressId, details.deliveryMethod)

\* checkout_details.get("shippingFee", 0.0)
ShippingFeeOf(details) == IF details.shippingFee = NULL THEN 0 ELSE details.shippingFee

\* order creation that adds no order_pickups row
PickupOfNever(details) == NULL

\* the order_pickups row both checkout paths create
PickupOf(details) ==
    IF details.deliveryMethod = "Pickup Delivery" /\ Truthy(details.storeId)
    THEN details.storeId ELSE NULL

\* create_order without the stock check of its loop over the cart lines
CreateOrderCheckNoStock(snap) ==
    IF CartLines(snap.cart) = {} THEN "Cart is empty"
    ELSE IF snap.details.addressId = NULL
            \/ AddressAccount[snap.details.addressId] # snap.user
    THEN "Invalid address"
    ELSE "ok"

\* the first error create_order raises, "ok" when it runs to its commit
CreateOrderCheck(snap) ==
    IF CartLines(snap.cart) = {} THEN "Cart is empty"
    ELSE IF snap.details.addressId = NULL
            \/ AddressAccount[snap.details.addressId] # snap.user
    THEN "Invalid address"
    ELSE IF \E p \in CartLines(snap.cart) : snap.prods[p].product_quantity < snap.cart[p]
    THEN "Insufficient stock"
    ELSE "ok"

\* the orders row, with its items, pickup and history, create_order adds
NewOrder(snap) ==
    LET subtotal == CartTotal(snap.cart, snap.prods)
        ov == OrderVoucher(snap, subtotal)
        shipping_fee == ShippingFeeOf(snap.details)
        lines == LinesSeq(CartLines(snap.cart))
    IN [account_id |-> snap.user,
        address_id |-> snap.details.addressId,
        payment_status |-> IF snap.details.paymentMethod = "Cash on delivery (COD)"
                           THEN "PENDING" ELSE "PAID",
        shipping_status |-> "PROCESSING",
        delivery_method |-> snap.details.deliveryMethod,
        payment_method |-> snap.details.paymentMethod,
        total_price |-> subtotal + shipping_fee - ov.voucher_discount,
        voucher_code |-> ov.voucher_code,
        voucher_discount |-> ov.voucher_discount,
        items |-> [i \in 1..Len(lines) |->
                     [product_id |-> lines[i], quantity |-> snap.cart[lines[i]],
                      unit_price |-> EffectivePrice(snap.prods[lines[i]])]],
        pickup |-> PickupOf(snap.details),
        history |-> <<[status |-> "PROCESSING", notes |-> "Order placed successfully"]>>,
        shipping_fee |-> shipping_fee,
        created_by |-> "create_order"]

\* the orders row, with its items and pickup, create_pending_order adds
NewPendingOrder(snap) ==
    LET subtotal == CartTotal(snap.cart, snap.prods)
        ov == PendingOrderVoucher(snap)
        shipping_fee == ShippingFeeOf(snap.details)
        lines == LinesSeq(CartLines(snap.cart))
    IN [account_id |-> snap.user,
        address_id |-> snap.details.addressId,
        payment_status |-> "PENDING",
        shipping_status |-> "PROCESSING",
        delivery_method |-> snap.details.deliveryMethod,
        payment_method |-> snap.details.paymentMethod,
        total_price |-> subtotal + shipping_fee - ov.voucher_discount,
        voucher_code |-> ov.voucher_code,
        voucher_discount |-> ov.voucher_discount,
        items |-> [i \in 1..Len(lines) |->
                     [product_id |-> lines[i], quantity |-> snap.cart[lines[i]],
                      unit_price |-> NULL]],
        pickup |-> PickupOf(snap.details),
        history |-> <<>>,
        shipping_fee |-> shipping_fee,
        created_by |-> "create_pending_order"]

ItemQty(order, p) ==
    SumOver([i \in DOMAIN order.items |->
                IF order.items[i].product_id = p THEN order.items[i].quantity ELSE 0],
            DOMAIN order.items)

\* History variable.  After a step that took products to prods: an order stays
\* "placed" or "cancelled" while no step but its own first cancellation has
\* changed the stock of one of its products, and is "dirty" from then on.
AuditStep(prods, cancelled) ==
    [o \in DOMAIN audit |->
        IF o = cancelled /\ audit[o].phase = "placed"
        THEN [audit[o] EXCEPT !.phase = "cancelled"]
        ELSE IF audit[o].phase \in {"placed", "cancelled"}
                /\ \E p \in Products :
                      /\ ItemQty(orders[o], p) > 0
                      /\ prods[p].product_quantity # products[p].product_quantity
        THEN [audit[o] EXCEPT !.phase = "dirty"]
        ELSE audit[o]]

StockOf(prods) == [p \in Products |-> prods[p].product_quantity]

\* products after the loop of create_order has written product_quantity of
\* every cart line: the value the transaction read, minus the quantity
DeductStock(snap) ==
    [p \in Products |->
        IF p \in CartLines(snap.cart)
        THEN [products[p] EXCEPT !.product_quantity =
                 snap.prods[p].product_quantity - snap.cart[p]]
        ELSE products[p]]

\* create_order from its first query to its commit, on what it has read
CommitCreateOrder(s, snap) ==
    LET check == CreateOrderCheck(snap)
        order == NewOrder(snap)
        records_usage == order.voucher_code # "NONE" /\ order.voucher_discount > 0
    IN IF check # "ok"
       THEN \* ValueError before the commit: the transaction is never committed
            /\ last' = Resp("process_payment", s, 400, check)
            /\ session' = [session EXCEPT ![s].checkoutDetails = snap.details]
            /\ UNCHANGED <<products, cart_items, vouchers, voucher_usage, orders, audit>>
       ELSE IF records_usage /\ UsageRows(order.voucher_code, snap.user) # {}
       THEN \* unique_user_voucher (voucher_code, account_id) rejects the insert
            /\ last' = Resp("process_payment", s, 400, "IntegrityError")
            /\ session' = [session EXCEPT ![s].checkoutDetails = snap.details]
            /\ UNCHANGED <<products, cart_items, vouchers, voucher_usage, orders, audit>>
       ELSE /\ orders' = Append(orders, order)
            /\ products' = DeductStock(snap)
            /\ IF records_usage
               THEN /\ vouchers' = [vouchers EXCEPT ![order.voucher_code].usage_count =
                                        snap.voucher.usage_count + 1]
                    /\ voucher_usage' = Append(voucher_usage,
                           [voucher_code |-> order.voucher_code,
                            account_id |-> snap.user,
                            order_id |-> Len(orders) + 1,
                            discount_amount |-> order.voucher_discount])
               ELSE UNCHANGED <<vouchers, voucher_usage>>
            /\ cart_items' = [cart_items EXCEPT ![snap.user] = EmptyCart]
            /\ session' = [session EXCEPT ![s].applied_voucher = NoSlot,
                                          ![s].checkoutDetails = EmptyCheckout]
            /\ last' = Resp("process_payment", s, 200, "Order placed successfully")
            /\ audit' = Append(AuditStep(DeductStock(snap), 0),
                               [before |-> StockOf(products), phase |-> "placed",
                                slot |-> snap.slot])

\* create_pending_order, then the gateway call of process_payment
CommitPendingOrder(s, snap, maya_ok) ==
    /\ orders' = Append(orders, NewPendingOrder(snap))
    /\ session' = [session EXCEPT ![s].checkoutDetails = snap.details]
    /\ last' = IF maya_ok
               THEN Resp("process_payment", s, 200, "Redirecting to payment gateway")
               ELSE Resp("process_payment", s, 400, "Payment gateway error")
    /\ audit' = Append(audit, [before |-> StockOf(products), phase |-> "pending",
                               slot |-> snap.slot])
    /\ UNCHANGED <<products, cart_items, vouchers, voucher_usage>>

\* POST /api/checkout/payment, run without interleaving
ProcessPayment(s, method, maya_ok) ==
    LET user == CurrentUser(s)
        details == session[s].checkoutDetails
    IN /\ txn[s] = NoTxn
       /\ Len(orders) < MaxOrders
       /\ IF user = NULL
          THEN /\ last' = Resp("process_payment", s, 401, "Not authenticated")
               /\ UNCHANGED <<products, cart_items, vouchers, voucher_usage, orders, session, audit>>
          ELSE IF details.deliveryMethod = "NONE"
          THEN /\ last' = Resp("process_payment", s, 400, "Please select delivery method first")
               /\ UNCHANGED <<products, cart_items, vouchers, voucher_usage, orders, session, audit>>
          ELSE IF CartLines(cart_items[user]) = {}
          THEN /\ last' = Resp("process_payment", s, 400, "Cart is empty")
               /\ UNCHANGED <<products, cart_items, vouchers, voucher_usage, orders, session, audit>>
          ELSE IF method = "Cash on delivery (COD)"
          THEN CommitCreateOrder(s, ReadSnapshot(s, method))
          ELSE CommitPendingOrder(s, ReadSnapshot(s, method), maya_ok)
       /\ UNCHANGED <<now, txn>>

\* POST /api/checkout/payment by cash on delivery, first half: the handler has
\* passed its own checks and the transaction has read the cart, the product
\* rows, the voucher and the usage rows; nothing is written yet
PaymentBegin(s, method) ==
    LET user == CurrentUser(s)
    IN /\ txn[s] = NoTxn
       /\ Len(orders) + Cardinality({t \in Sessions : txn[t] # NoTxn}) < MaxOrders
       /\ user # NULL
       /\ session[s].checkoutDetails.deliveryMethod # "NONE"
       /\ CartLines(cart_items[user]) # {}
       /\ method = "Cash on delivery (COD)"
       /\ txn' = [txn EXCEPT ![s] = [pc |-> "read", snap |-> ReadSnapshot(s, method)]]
       /\ UNCHANGED <<products, cart_items, vouchers, voucher_usage, orders, session,
                      now, last, audit>>

\* second half: create_order runs from its checks to its commit on the rows it
\* read, whatever other transactions have committed since
PaymentCommit(s) ==
    /\ txn[s] # NoTxn
    /\ CommitCreateOrder(s, txn[s].snap)
    /\ txn' = [txn EXCEPT ![s] = NoTxn]
    /\ UNCHANGED now

\* ------------------------------------------------------------------------
\* Order lifecycle: OrderService and its callers
\* ------------------------------------------------------------------------
StockCap == MaxStock

\* a cancellation that leaves the stock as it is
RestoreNothing(order) == products

\* product_quantity += item.quantity for every item of the order
RestoreStock(order) ==
    [p \in Products |->
        [products[p] EXCEPT !.product_quantity = @ + ItemQty(order, p)]]

HistoryRoom(order, n) == Len(order.history) + n <= MaxHistory

\* OrderService.confirm_payment, called by the gateway success callback
ConfirmPayment(o) ==
    IF o \notin DOMAIN orders
    THEN /\ last' = Resp("confirm_payment", 0, 400, "Order not found")
         /\ UNCHANGED <<products, cart_items, vouchers, voucher_usage, orders, session, now, txn, audit>>
    ELSE LET order == orders[o]
         IN /\ order.payment_status = "PENDING" => HistoryRoom(order, 1)
            /\ IF order.payment_status # "PENDING"
               THEN /\ last' = Resp("confirm_payment", 0, 400, "Order is not pending payment")
                    /\ UNCHANGED <<products, cart_items, orders, audit>>
               ELSE IF \E i \in DOMAIN order.items :
                          products[order.items[i].product_id].product_quantity
                              < order.items[i].quantity
               THEN /\ last' = Resp("confirm_payment", 0, 400, "Insufficient stock")
                    /\ UNCHANGED <<products, cart_items, orders, audit>>
               ELSE /\ products' = [p \in Products |->
                           [products[p] EXCEPT !.product_quantity = @ - ItemQty(order, p)]]
                    /\ orders' = [orders EXCEPT ![o].payment_status = "PAID",
                           ![o].history = Append(@, [status |-> "PAID",
                                                     notes |-> "Payment confirmed successfully"])]
                    /\ cart_items' = [cart_items EXCEPT ![order.account_id] = EmptyCart]
                    /\ last' = Resp("confirm_payment", 0, 200, "ok")
                    /\ audit' = AuditStep(products', 0)
            /\ UNCHANGED <<vouchers, voucher_usage, session, now, txn>>

\* OrderService.fail_payment, called by the gateway failure / cancel callback
FailPayment(o) ==
    IF o \notin DOMAIN orders
    THEN /\ last' = Resp("fail_payment", 0, 200, "returned")
         /\ UNCHANGED <<products, cart_items, vouchers, voucher_usage, orders, session, now, txn, audit>>
    ELSE /\ HistoryRoom(orders[o], 1)
         /\ orders' = [orders EXCEPT ![o].payment_status = "CANCELLED",
                                     ![o].shipping_status = "CANCELLED",
                ![o].history = Append(@, [status |-> "CANCELLED",
                                          notes |-> "Payment failed or cancelled"])]
         /\ last' = Resp("fail_payment", 0, 200, "ok")
         /\ UNCHANGED <<products, cart_items, vouchers, voucher_usage, session, now, txn, audit>>

\* POST /api/orders/{order_id}/cancel -> OrderService.cancel_order
CancelOrder(s, o) ==
    LET user == CurrentUser(s)
    IN IF user = NULL
       THEN /\ last' = Resp("cancel_order", s, 401, "Not authenticated")
            /\ UNCHANGED <<products, cart_items, vouchers, voucher_usage, orders, session, now, txn, audit>>
       ELSE IF o \notin DOMAIN orders
       THEN /\ last' = Resp("cancel_order", s, 400, "Order not found")
            /\ UNCHANGED <<products, cart_items, vouchers, voucher_usage, orders, session, now, txn, audit>>
       ELSE IF orders[o].account_id # user
       THEN /\ last' = Resp("cancel_order", s, 400, "Unauthorized")
            /\ UNCHANGED <<products, cart_items, vouchers, voucher_usage, orders, session, now, txn, audit>>
       ELSE IF orders[o].shipping_status \in {"DELIVERED", "IN_TRANSIT"}
       THEN /\ last' = Resp("cancel_order", s, 400, "Cannot cancel order")
            /\ UNCHANGED <<products, cart_items, vouchers, voucher_usage, orders, session, now, txn, audit>>
       ELSE /\ HistoryRoom(orders[o], 1)
            /\ \A p \in Products : RestoreStock(orders[o])[p].product_quantity <= StockCap
            /\ products' = RestoreStock(orders[o])
            /\ orders' = [orders EXCEPT
                   ![o].shipping_status = "CANCELLED",
                   ![o].payment_status = IF @ = "PAID" THEN "REFUNDED" ELSE "CANCELLED",
                   ![o].history = Append(@, [status |-> "CANCELLED",
                       notes |-> IF orders[o].payment_status = "PAID"
                                 THEN "Order cancelled by customer - Payment refunded"
                                 ELSE "Order cancelled by customer"])]
            /\ last' = Resp("cancel_order", s, 200, "Order cancelled successfully")
            /\ audit' = AuditStep(products', o)
            /\ UNCHANGED <<cart_items, vouchers, voucher_usage, session, now, txn>>

\* update_shipping_status that marks every cancelled order CANCELLED, paid or not
ShippingStatusUpdateNoRefund(order, status) ==
    LET pay1 == IF status = "CANCELLED" THEN "CANCELLED" ELSE order.payment_status
        collects == status = "COLLECTED" /\ pay1 = "PENDING"
        h1 == IF collects
              THEN Append(order.history,
                          [status |-> "PAID", notes |-> "Payment received on collection"])
              ELSE order.history
    IN [order EXCEPT !.shipping_status = status,
                     !.payment_status = IF collects THEN "PAID" ELSE pay1,
                     !.history = Append(h1, [status |-> status, notes |-> "Status updated"])]

\* OrderService.update_shipping_status: the orders row and its new history rows
ShippingStatusUpdate(order, status) ==
    LET pay1 == IF status = "CANCELLED"
                THEN (IF order.payment_status = "PAID" THEN "REFUNDED" ELSE "CANCELLED")
                ELSE order.payment_status
        collects == status = "COLLECTED" /\ pay1 = "PENDING"
        h1 == IF collects
              THEN Append(order.history,
                          [status |-> "PAID", notes |-> "Payment received on collection"])
              ELSE order.history
    IN [order EXCEPT !.shipping_status = status,
                     !.payment_status = IF collects THEN "PAID" ELSE pay1,
                     !.history = Append(h1, [status |-> status, notes |-> "Status updated"])]

\* PUT /api/admin/orders/{order_id}/status -> OrderService.update_shipping_status
UpdateOrderStatus(is_super_admin, o, status) ==
    IF ~is_super_admin
    THEN /\ last' = Resp("update_order_status", 0, 403, "Super admin privileges required")
         /\ UNCHANGED <<products, cart_items, vouchers, voucher_usage, orders, session, now, txn, audit>>
    ELSE IF o \notin DOMAIN orders
    THEN /\ last' = Resp("update_order_status", 0, 400, "Order not found")
         /\ UNCHANGED <<products, cart_items, vouchers, voucher_usage, orders, session, now, txn, audit>>
    ELSE /\ Len(ShippingStatusUpdate(orders[o], status).history) <= MaxHistory
         /\ status = "CANCELLED" =>
               \A p \in Products : RestoreStock(orders[o])[p].product_quantity <= StockCap
         /\ orders' = [orders EXCEPT ![o] = ShippingStatusUpdate(orders[o], status)]
         /\ products' = IF status = "CANCELLED" THEN RestoreStock(orders[o]) ELSE products
         /\ last' = Resp("update_order_status", 0, 200, status)
         /\ audit' = AuditStep(products', IF status = "CANCELLED" THEN o ELSE 0)
         /\ UNCHANGED <<cart_items, vouchers, voucher_usage, session, now, txn>>

\* PUT /api/admin/products/{product_id}/stock
UpdateStock(is_super_admin, p, new_qty) ==
    /\ IF is_super_admin /\ products[p].product_quantity # new_qty
       THEN /\ products' = [products EXCEPT ![p].product_quantity = new_qty]
            /\ last' = Resp("update_stock", 0, 200, "Stock updated")
       ELSE IF is_super_admin
       THEN /\ last' = Resp("update_stock", 0, 200, "No change")
            /\ UNCHANGED products
       ELSE \* a store admin writes store_inventory, never products
            /\ last' = Resp("update_stock", 0, 200, "store inventory")
            /\ UNCHANGED products
    /\ audit' = AuditStep(products', 0)
    /\ UNCHANGED <<cart_items, vouchers, voucher_usage, orders, session, now, txn>>

\* ShippingStatus.READY_FOR_PICKUP, which mark_order_collected compares with.
\* The enum of app/models has no such member, so that comparison raises
\* AttributeError; a build whose enum has it accepts it as a status.
READY_FOR_PICKUP == "READY_FOR_PICKUP"

\* the statuses PUT /api/admin/orders/{order_id}/status can be sent, over both builds
StatusInputs == ShippingStatus \cup {READY_FOR_PICKUP}

\* POST /api/orders/{order_id}/mark-collected
MarkOrderCollected(s, o) ==
    LET user == CurrentUser(s)
    IN /\ IF user = NULL
          THEN /\ last' = Resp("mark_order_collected", s, 401, "Not authenticated")
               /\ UNCHANGED orders
          ELSE IF o \notin DOMAIN orders
          THEN /\ last' = Resp("mark_order_collected", s, 404, "Order not found")
               /\ UNCHANGED orders
          ELSE IF orders[o].account_id # user
          THEN /\ last' = Resp("mark_order_collected", s, 403, "Access denied")
               /\ UNCHANGED orders
          ELSE IF orders[o].delivery_method # "Pickup Delivery"
          THEN /\ last' = Resp("mark_order_collected", s, 400, "This is not a pickup order")
               /\ UNCHANGED orders
          ELSE IF orders[o].shipping_status # READY_FOR_PICKUP
          THEN \* "not ready" where the enum has the member, AttributeError where not
               /\ \/ last' = Resp("mark_order_collected", s, 400,
                                   "Order is not ready for pickup yet")
                  \/ last' = Resp("mark_order_collected", s, 500, "AttributeError")
               /\ UNCHANGED orders
          ELSE /\ HistoryRoom(orders[o], 1)
               /\ orders' = [orders EXCEPT ![o].shipping_status = "COLLECTED",
                      ![o].history = Append(@, [status |-> "COLLECTED",
                                                notes |-> "Order collected by customer"])]
               /\ last' = Resp("mark_order_collected", s, 200,
                               "Order marked as collected successfully")
       /\ UNCHANGED <<products, cart_items, vouchers, voucher_usage, session, now, txn, audit>>

\* PUT /api/admin/products/{product_id}/price
UpdatePrice(is_super_admin, p, new_price) ==
    /\ IF ~is_super_admin
       THEN /\ last' = Resp("update_price", 0, 403, "Super admin privileges required")
            /\ UNCHANGED products
       ELSE IF products[p].product_price = new_price
       THEN /\ last' = Resp("update_price", 0, 200, "No change")
            /\ UNCHANGED products
       ELSE /\ products' = [products EXCEPT ![p] =
                   IF @.is_on_sale /\ Truthy(@.product_discount_price)
                      /\ new_price <= @.product_discount_price
                   THEN [@ EXCEPT !.product_price = new_price, !.is_on_sale = FALSE,
                                  !.product_discount_price = NULL]
                   ELSE [@ EXCEPT !.product_price = new_price]]
            /\ last' = Resp("update_price", 0, 200, "Price updated")
    /\ UNCHANGED <<cart_items, vouchers, voucher_usage, orders, session, now, txn, audit>>

\* PUT /api/admin/products/{product_id}/discount
UpdateProductDiscount(is_super_admin, p, discount_price, on_sale) ==
    /\ IF ~is_super_admin
       THEN /\ last' = Resp("update_product_discount", 0, 403, "Super admin privileges required")
            /\ UNCHANGED products
       ELSE /\ products' = [products EXCEPT ![p].product_discount_price = discount_price,
                                            ![p].is_on_sale = on_sale]
            /\ last' = Resp("update_product_discount", 0, 200, "Discount updated successfully")
    /\ UNCHANGED <<cart_items, vouchers, voucher_usage, orders, session, now, txn, audit>>

\* ------------------------------------------------------------------------
\* Voucher management (admin router)
\* ------------------------------------------------------------------------

\* POST /api/admin/vouchers
CreateVoucher(is_super_admin, code, data) ==
    /\ IF ~is_super_admin
       THEN /\ last' = Resp("create_voucher", 0, 403, "Super admin access required")
            /\ UNCHANGED vouchers
       ELSE IF vouchers[code] # NoVoucher
       THEN /\ last' = Resp("create_voucher", 0, 400, "Voucher code already exists")
            /\ UNCHANGED vouchers
       ELSE IF data.discount_type \notin {"percentage", "fixed_amount"}
       THEN /\ last' = Resp("create_voucher", 0, 400, "Invalid discount type")
            /\ UNCHANGED vouchers
       ELSE IF data.valid_until <= data.valid_from
       THEN /\ last' = Resp("create_voucher", 0, 400, "End date must be after start date")
            /\ UNCHANGED vouchers
       ELSE /\ vouchers' = [vouchers EXCEPT ![code] =
                   [exists |-> TRUE,
                    discount_type |-> data.discount_type,
                    discount_value |-> data.discount_value,
                    min_purchase_amount |-> data.min_purchase_amount,
                    max_discount_amount |-> data.max_discount_amount,
                    valid_from |-> data.valid_from,
                    valid_until |-> data.valid_until,
                    usage_limit |-> data.usage_limit,
                    usage_count |-> 0,
                    is_active |-> data.is_active]]
            /\ last' = Resp("create_voucher", 0, 200, "Voucher created successfully")
    /\ UNCHANGED <<products, cart_items, voucher_usage, orders, session, now, txn, audit>>

\* one optional field of VoucherUpdateRequest: kept when the request omits it
Provided(new, old) == IF new # NULL THEN new ELSE old

\* PUT /api/admin/vouchers/{voucher_code}
UpdateVoucher(is_super_admin, code, data) ==
    /\ IF ~is_super_admin
       THEN /\ last' = Resp("update_voucher", 0, 403, "Super admin access required")
            /\ UNCHANGED vouchers
       ELSE IF vouchers[code] = NoVoucher
       THEN /\ last' = Resp("update_voucher", 0, 404, "Voucher not found")
            /\ UNCHANGED vouchers
       ELSE /\ vouchers' = [vouchers EXCEPT ![code] =
                   [@ EXCEPT
                      !.discount_value = Provided(data.discount_value, @),
                      !.min_purchase_amount = Provided(data.min_purchase_amount, @),
                      !.max_discount_amount = Provided(data.max_discount_amount, @),
                      !.usage_limit = Provided(data.usage_limit, @),
                      !.is_active = IF data.is_active = "None" THEN @
                                    ELSE data.is_active = "true",
                      !.valid_from = Provided(data.valid_from, @),
                      !.valid_until = Provided(data.valid_until, @)]]
            /\ last' = Resp("update_voucher", 0, 200, "Voucher updated successfully")
    /\ UNCHANGED <<products, cart_items, voucher_usage, orders, session, now, txn, audit>>

\* the clock advances
Tick ==
    /\ now < MaxNow
    /\ now' = now + 1
    /\ last' = Resp("tick", 0, 0, "")
    /\ UNCHANGED <<products, cart_items, vouchers, voucher_usage, orders, session, txn, audit>>

\* ------------------------------------------------------------------------
\* Specifications
\* ------------------------------------------------------------------------

\* a voucher as POST /api/admin/vouchers stores it
VoucherRow(type, value, min_purchase, max_discount, limit) ==
    [exists |-> TRUE, discount_type |-> type, discount_value |-> value,
     min_purchase_amount |-> min_purchase, max_discount_amount |-> max_discount,
     valid_from |-> 1, valid_until |-> 2, usage_limit |-> limit, usage_count |-> 0,
     is_active |-> TRUE]

\* every session logged in, session s as account s; a 10% voucher capped at 20
InitLoggedIn ==
    /\ products = [p \in Products |->
                     [product_price |-> SeedPrice[p],
                      product_discount_price |-> SeedDiscountPrice[p],
                      is_on_sale |-> SeedOnSale[p],
                      product_quantity |-> SeedStock[p]]]
    /\ cart_items = [a \in Accounts |-> EmptyCart]
    /\ vouchers = [c \in Codes |-> VoucherRow("percentage", 10, NULL, 20, 2)]
    /\ voucher_usage = <<>>
    /\ orders = <<>>
    /\ session = [s \in Sessions |-> [EmptySession EXCEPT !.user_email = s]]
    /\ now = 1
    /\ txn = [s \in Sessions |-> NoTxn]
    /\ last = Resp("none", 0, 0, "")
    /\ audit = <<>>

\* Stock: one customer fills a cart, applies the voucher, checks out on either
\* path and cancels; the gateway confirms; the admin cancels and edits stock.
\* This specification stops one order short of MaxOrders.
NextStock ==
    \/ \E p \in Products, q \in 1..MaxQty : AddToCart(1, p, q)
    \/ ApplyVoucher(1, "SAVE")
    \/ SetAddress(1, 1)
    \/ SetShipping(1, "Standard Delivery", NULL)
    \/ /\ Len(orders) < MaxOrders - 1
       /\ \E m \in {"Cash on delivery (COD)", "Maya"} : ProcessPayment(1, m, TRUE)
    \/ \E o \in 1..MaxOrders : ConfirmPayment(o)
    \/ \E o \in 1..MaxOrders : CancelOrder(1, o)
    \/ \E o \in 1..MaxOrders : UpdateOrderStatus(TRUE, o, "CANCELLED")
    \/ \E p \in Products : UpdateStock(TRUE, p, -1)

SpecStock == InitLoggedIn /\ [][NextStock]_vars

\* the bodies POST /api/admin/vouchers is sent
VoucherTemplates ==
    { [discount_type |-> "percentage", discount_value |-> 10, min_purchase_amount |-> NULL,
       max_discount_amount |-> 20, valid_from |-> 1, valid_until |-> 2,
       usage_limit |-> 2, is_active |-> TRUE],
      [discount_type |-> "fixed_amount", discount_value |-> 50, min_purchase_amount |-> 200,
       max_discount_amount |-> NULL, valid_from |-> 1, valid_until |-> 2,
       usage_limit |-> NULL, is_active |-> TRUE],
      [discount_type |-> "percentage", discount_value |-> 200, min_purchase_amount |-> NULL,
       max_discount_amount |-> NULL, valid_from |-> 1, valid_until |-> 2,
       usage_limit |-> NULL, is_active |-> TRUE],
      [discount_type |-> "fixed_amount", discount_value |-> -50, min_purchase_amount |-> NULL,
       max_discount_amount |-> NULL, valid_from |-> 1, valid_until |-> 2,
       usage_limit |-> NULL, is_active |-> TRUE] }

\* a body of PUT /api/admin/vouchers/{voucher_code} with no field provided
NoUpdate ==
    [discount_value |-> NULL, min_purchase_amount |-> NULL, max_discount_amount |-> NULL,
     usage_limit |-> NULL, is_active |-> "None", valid_from |-> NULL, valid_until |-> NULL]

\* no voucher exists yet; every session logged in, session s as account s
InitVoucher ==
    /\ products = [p \in Products |->
                     [product_price |-> SeedPrice[p],
                      product_discount_price |-> SeedDiscountPrice[p],
                      is_on_sale |-> SeedOnSale[p],
                      product_quantity |-> SeedStock[p]]]
    /\ cart_items = [a \in Accounts |-> EmptyCart]
    /\ vouchers = [c \in Codes |-> NoVoucher]
    /\ voucher_usage = <<>>
    /\ orders = <<>>
    /\ session = [s \in Sessions |-> [EmptySession EXCEPT !.user_email = s]]
    /\ now = 1
    /\ txn = [s \in Sessions |-> NoTxn]
    /\ last = Resp("none", 0, 0, "")
    /\ audit = <<>>

\* Vouchers: the admin creates and deactivates a voucher; one customer edits the
\* cart, applies the voucher, views the cart and checks out on either path.
\* This specification stops one order short of MaxOrders.
NextVoucher ==
    \/ \E t \in VoucherTemplates : CreateVoucher(TRUE, "SAVE", t)
    \/ UpdateVoucher(TRUE, "SAVE", [NoUpdate EXCEPT !.is_active = "false"])
    \/ \E p \in Products, q \in 1..MaxQty : AddToCart(1, p, q)
    \/ \E p \in Products : RemoveFromCart(1, p)
    \/ ApplyVoucher(1, "SAVE")
    \/ GetCart(1)
    \/ SetAddress(1, 1)
    \/ SetShipping(1, "Standard Delivery", NULL)
    \/ /\ Len(orders) < MaxOrders - 1
       /\ \E m \in {"Cash on delivery (COD)", "Maya"} : ProcessPayment(1, m, TRUE)
    \/ Tick

SpecVoucher == InitVoucher /\ [][NextVoucher]_vars

\* products.product_quantity in the race scenario: 3 units of product 1
RaceStock == <<3, 1>>

\* the 10% voucher exists; every session logged in, session s as account s
InitRace ==
    /\ products = [p \in Products |->
                     [product_price |-> SeedPrice[p],
                      product_discount_price |-> SeedDiscountPrice[p],
                      is_on_sale |-> SeedOnSale[p],
                      product_quantity |-> RaceStock[p]]]
    /\ cart_items = [a \in Accounts |-> EmptyCart]
    /\ vouchers = [c \in Codes |-> VoucherRow("percentage", 10, NULL, 20, 2)]
    /\ voucher_usage = <<>>
    /\ orders = <<>>
    /\ session = [s \in Sessions |-> [EmptySession EXCEPT !.user_email = s]]
    /\ now = 1
    /\ txn = [s \in Sessions |-> NoTxn]
    /\ last = Resp("none", 0, 0, "")
    /\ audit = <<>>

\* Race: two customers, each with one request in flight at a time, fill their
\* carts with product 1 and check out by cash on delivery; the two create_order
\* transactions interleave.  The admin lowers the usage limit of the voucher.
NextRace ==
    \/ \E s \in Sessions : txn[s] = NoTxn /\ AddToCart(s, 1, MaxQty)
    \/ \E s \in Sessions : txn[s] = NoTxn /\ ApplyVoucher(s, "SAVE")
    \/ \E s \in Sessions : txn[s] = NoTxn /\ SetAddress(s, s)
    \/ \E s \in Sessions : txn[s] = NoTxn /\ SetShipping(s, "Standard Delivery", NULL)
    \/ \E s \in Sessions : PaymentBegin(s, "Cash on delivery (COD)")
    \/ \E s \in Sessions : PaymentCommit(s)
    \/ UpdateVoucher(TRUE, "SAVE", [NoUpdate EXCEPT !.usage_limit = 1])

SpecRace == InitRace /\ [][NextRace]_vars

\* Lifecycle: customer 1 places one order, delivered or picked up, on either
\* checkout path; the gateway confirms or fails it; either customer cancels or
\* collects it; an admin, super or not, sets any status.
\* This specification stops one order short of MaxOrders.
NextLifecycle ==
    \/ AddToCart(1, 1, MaxQty)
    \/ SetAddress(1, 1)
    \/ \E m \in {"Standard Delivery", "Pickup Delivery"} : SetShipping(1, m, 1)
    \/ /\ Len(orders) < MaxOrders - 1
       /\ \E m \in {"Cash on delivery (COD)", "Maya"} : ProcessPayment(1, m, TRUE)
    \/ \E o \in 1..MaxOrders : ConfirmPayment(o)
    \/ \E o \in 1..MaxOrders : FailPayment(o)
    \/ \E s \in Sessions, o \in 1..MaxOrders : CancelOrder(s, o)
    \/ \E s \in Sessions, o \in 1..MaxOrders : MarkOrderCollected(s, o)
    \/ \E a \in BOOLEAN, o \in 1..MaxOrders, st \in StatusInputs : UpdateOrderStatus(a, o, st)

SpecLifecycle == InitLoggedIn /\ [][NextLifecycle]_vars

\* One browser session on which accounts log in and out and check out by
\* every payment method.
NextCheckout ==
    \/ \E a \in Accounts : Login(1, a)
    \/ Logout(1)
    \/ AddToCart(1, 1, MaxQty)
    \/ \E a \in Addresses : SetAddress(1, a)
    \/ \E m \in {"Standard Delivery", "Pickup Delivery"} : SetShipping(1, m, 1)
    \/ /\ Len(orders) < MaxOrders - 1
       /\ \E m \in PaymentMethods, maya_ok \in BOOLEAN : ProcessPayment(1, m, maya_ok)

SpecCheckout == InitLoggedIn /\ [][NextCheckout]_vars

\* the list prices and sale prices an admin sets
PriceInputs == {100, 120}
DiscountInputs == {NULL, 80, 150}

\* Account 1 checks out by every payment method while a super admin edits
\* the price and the sale of the product.
NextCatalog ==
    \/ AddToCart(1, 1, MaxQty)
    \/ SetAddress(1, 1)
    \/ SetShipping(1, "Standard Delivery", NULL)
    \/ \E m \in PaymentMethods : ProcessPayment(1, m, TRUE)
    \/ \E a \in BOOLEAN, np \in PriceInputs : UpdatePrice(a, 1, np)
    \/ \E a \in BOOLEAN, d \in DiscountInputs, on_sale \in BOOLEAN :
          UpdateProductDiscount(a, 1, d, on_sale)

SpecCatalog == InitLoggedIn /\ [][NextCatalog]_vars

\* the 10% voucher exists; session s is logged in as account s and has chosen
\* its address and Standard Delivery
InitRevalidate ==
    /\ products = [p \in Products |->
                     [product_price |-> SeedPrice[p],
                      product_discount_price |-> SeedDiscountPrice[p],
                      is_on_sale |-> SeedOnSale[p],
                      product_quantity |-> SeedStock[p]]]
    /\ cart_items = [a \in Accounts |-> EmptyCart]
    /\ vouchers = [c \in Codes |-> VoucherRow("percentage", 10, NULL, 20, 2)]
    /\ voucher_usage = <<>>
    /\ orders = <<>>
    /\ session = [s \in Sessions |->
                    [EmptySession EXCEPT
                       !.user_email = s,
                       !.checkoutDetails =
                           [EmptyCheckout EXCEPT
                              !.addressId = s,
                              !.deliveryMethod = "Standard Delivery",
                              !.shippingFee = CalculateShippingFee(s, "Standard Delivery")]]]
    /\ now = 1
    /\ txn = [s \in Sessions |-> NoTxn]
    /\ last = Resp("none", 0, 0, "")
    /\ audit = <<>>

\* Re-validation: two sessions, session 2 logging in as either account, fill
\* their carts, apply the voucher and check out by cash on delivery while the
\* admin deactivates the voucher or lowers its usage limit and time passes.
NextRevalidate ==
    \/ \E a \in Accounts : Login(2, a)
    \/ \E s \in Sessions : AddToCart(s, 1, MaxQty)
    \/ \E s \in Sessions : ApplyVoucher(s, "SAVE")
    \/ SetAddress(2, CurrentUser(2))
    \/ \E s \in Sessions : ProcessPayment(s, "Cash on delivery (COD)", TRUE)
    \/ UpdateVoucher(TRUE, "SAVE", [NoUpdate EXCEPT !.is_active = "false"])
    \/ UpdateVoucher(TRUE, "SAVE", [NoUpdate EXCEPT !.usage_limit = 1])
    \/ Tick

SpecRevalidate == InitRevalidate /\ [][NextRevalidate]_vars

\* Gateway: customer 1 applies the voucher and places orders on either
\* checkout path; the gateway confirms or fails them and the customer
\* cancels them.  No admin edits the stock.
NextGateway ==
    \/ AddToCart(1, 1, MaxQty)
    \/ ApplyVoucher(1, "SAVE")
    \/ SetAddress(1, 1)
    \/ SetShipping(1, "Standard Delivery", NULL)
    \/ \E m \in {"Cash on delivery (COD)", "Maya"} : ProcessPayment(1, m, TRUE)
    \/ \E o \in 1..MaxOrders : ConfirmPayment(o)
    \/ \E o \in 1..MaxOrders : FailPayment(o)
    \/ \E o \in 1..MaxOrders : CancelOrder(1, o)

SpecGateway == InitLoggedIn /\ [][NextGateway]_vars

\* the store ids POST /api/checkout/shipping is sent: none, store 1, no such store
StoreInputs == {NULL, 1, 2}

\* Shipping: customer 1 chooses any of the addresses and any delivery method,
\* in any order and any number of times, applies the voucher and pays by any
\* method.  This specification stops one order short of MaxOrders.
NextShipping ==
    \/ AddToCart(1, 1, MaxQty)
    \/ ApplyVoucher(1, "SAVE")
    \/ \E a \in Addresses : SetAddress(1, a)
    \/ \E m \in DeliveryMethods, st \in StoreInputs : SetShipping(1, m, st)
    \/ /\ Len(orders) < MaxOrders - 1
       /\ \E m \in PaymentMethods : ProcessPayment(1, m, TRUE)

SpecShipping == InitLoggedIn /\ [][NextShipping]_vars

\* Login: visitors fill the cart of their session, log in and out, and fill
\* and empty the cart of their account.
NextLogin ==
    \/ \E s \in Sessions, a \in Accounts : Login(s, a)
    \/ \E s \in Sessions : Logout(s)
    \/ \E s \in Sessions, p \in Products : AddToCart(s, p, MaxQty)
    \/ \E s \in Sessions, p \in Products : RemoveFromCart(s, p)

SpecLogin == Init /\ [][NextLogin]_vars

\* Cancellation: customer 1 places cash on delivery orders of either product;
\* the customer cancels them and a super admin sets them CANCELLED, any number
\* of times.
NextCancel ==
    \/ \E p \in Products : AddToCart(1, p, MaxQty)
    \/ SetAddress(1, 1)
    \/ SetShipping(1, "Standard Delivery", NULL)
    \/ ProcessPayment(1, "Cash on delivery (COD)", TRUE)
    \/ \E o \in 1..MaxOrders : CancelOrder(1, o)
    \/ \E o \in 1..MaxOrders : UpdateOrderStatus(TRUE, o, "CANCELLED")

SpecCancel == InitLoggedIn /\ [][NextCancel]_vars

\* ------------------------------------------------------------------------
\* Claims
\* ------------------------------------------------------------------------

\* C2: round trip.  An order placed with create_order leaves each ordered
\* product's stock at its value before placement minus the ordered quantity,
\* and its cancellation (customer or admin) brings the stock back to exactly
\* the value before placement, as long as nothing else wrote that stock.
PlaceCancelRoundTrip ==
    \A o \in DOMAIN orders : \A p \in Products :
        ItemQty(orders[o], p) > 0 =>
            /\ audit[o].phase = "placed" =>
                 products[p].product_quantity = audit[o].before[p] - ItemQty(orders[o], p)
            /\ audit[o].phase = "cancelled" =>
                 products[p].product_quantity = audit[o].before[p]

\* C2 witness: an order of create_order has been cancelled with its stock untouched otherwise
PlaceCancelRoundTripWitness ==
    \E o \in DOMAIN orders :
        /\ orders[o].created_by = "create_order"
        /\ orders[o].shipping_status = "CANCELLED"
        /\ audit[o].phase = "cancelled"

\* C4: the stock of every product is >= 0 in every reachable state
StockNeverNegative ==
    \A p \in Products : products[p].product_quantity >= 0

\* a request in this state reaches the stock check of create_order with a cart
\* line that asks for more than the stock
ShortOfStock(s) ==
    LET user == CurrentUser(s)
    IN /\ user # NULL
       /\ session[s].checkoutDetails.deliveryMethod # "NONE"
       /\ session[s].checkoutDetails.addressId # NULL
       /\ AddressAccount[session[s].checkoutDetails.addressId] = user
       /\ \E p \in Products :
            cart_items[user][p] > 0 /\ cart_items[user][p] > products[p].product_quantity

IsCreateOrderResponse(r) ==
    r.op = "process_payment"
    /\ r.detail \notin {"Redirecting to payment gateway", "Payment gateway error"}

\* C5: when a cart line asks for more than the stock, create_order fails with
\* the insufficient-stock error and persists nothing: orders (with items,
\* history, pickup), stock, voucher usage, cart and session voucher slot are
\* as they were.
FailedOrderPersistsNothing ==
    [][\A s \in Sessions :
         (ShortOfStock(s) /\ last'.session = s /\ IsCreateOrderResponse(last')) =>
            /\ last'.status = 400
            /\ last'.detail = "Insufficient stock"
            /\ UNCHANGED <<products, cart_items, vouchers, voucher_usage, orders>>
            /\ session'[s].applied_voucher = session[s].applied_voucher]_vars

\* C5 witness: create_order has just failed on stock with two cart lines, the
\* first of them in stock, and a voucher in the session slot
FailedOrderWitness ==
    /\ last.op = "process_payment" /\ last.detail = "Insufficient stock"
    /\ session[last.session].applied_voucher # NoSlot
    /\ LET cart == cart_items[CurrentUser(last.session)]
       IN /\ cart[1] > 0 /\ cart[1] <= products[1].product_quantity
          /\ cart[2] > products[2].product_quantity

\* C1: every order created at checkout stores a total_price equal to the sum
\* over its lines of unit_price x quantity, plus its shipping fee, minus its
\* stored voucher_discount, whichever of create_order and create_pending_order
\* created it.
OrderTotalMatchesLines ==
    \A o \in DOMAIN orders :
        LET items == orders[o].items
        IN /\ \A i \in DOMAIN items : items[i].unit_price # NULL
           /\ orders[o].total_price =
                 SumOver([i \in DOMAIN items |-> items[i].unit_price * items[i].quantity],
                         DOMAIN items)
                 + orders[o].shipping_fee - orders[o].voucher_discount

\* quantity of product p in the orders created so far
SoldQty(p) == SumOver([o \in DOMAIN orders |-> ItemQty(orders[o], p)], DOMAIN orders)

\* C3: when two placements for the same product run concurrently and ask for
\* more than the stock together (stock 3, 2 each), at most one succeeds: the
\* orders never hold more units than the stock had, and the stock is never
\* negative.
ConcurrentPlacementsWithinStock ==
    \A p \in Products :
        /\ SoldQty(p) <= RaceStock[p]
        /\ products[p].product_quantity >= 0

\* the account has an order that carries a discount from voucher code
HasDiscountedOrder(account, code) ==
    \E o \in DOMAIN orders :
        /\ orders[o].account_id = account
        /\ orders[o].voucher_code = code
        /\ orders[o].voucher_discount > 0

\* C6: an account redeems a voucher code at most once: there is at most one
\* voucher_usage row per (voucher_code, account), and once the account has an
\* order with a discount of the voucher, on either checkout path, apply_voucher
\* of that code by the account is rejected.
RedeemedAtMostOnce ==
    [][/\ \A c \in Codes, a \in Accounts : Cardinality(UsageRows(c, a)) <= 1
       /\ \A s \in Sessions, c \in Codes :
            (CurrentUser(s) # NULL /\ HasDiscountedOrder(CurrentUser(s), c))
            => ~(/\ last'.op = "apply_voucher"
                 /\ last'.session = s
                 /\ last'.status = 200
                 /\ session'[s].applied_voucher.voucher_code = c)]_vars

\* C7: for every voucher with a usage limit, usage_count <= usage_limit in every
\* reachable state, under interleaved placements and admin voucher updates
UsageWithinLimit ==
    \A c \in Codes :
        (vouchers[c] # NoVoucher /\ vouchers[c].usage_limit # NULL)
        => vouchers[c].usage_count <= vouchers[c].usage_limit

\* C8: an order is created with a non-zero voucher discount only if the voucher
\* passes every check of apply_voucher at that moment, and the discount stored
\* is the one recomputed from the live voucher and the current cart subtotal.
OrderDiscountRevalidated ==
    [][Len(orders') = Len(orders) + 1 =>
         LET order == orders'[Len(orders')]
             subtotal == CartTotal(cart_items[order.account_id], products)
         IN order.voucher_discount # 0 =>
              /\ order.voucher_code # "NONE"
              /\ ApplyVoucherCheck(order.voucher_code, order.account_id, subtotal) = "ok"
              /\ order.voucher_discount = CalcDiscount(vouchers[order.voucher_code], subtotal)]_vars

\* C9: the total_price of every created order is >= 0, for every voucher the
\* admin can create
OrderTotalNonNegative ==
    \A o \in DOMAIN orders : orders[o].total_price >= 0

\* the bounds on a discount d computed from voucher v for a cart subtotal
DiscountInBounds(d, v, subtotal) ==
    /\ d >= 0
    /\ v.discount_type = "fixed_amount" => d <= subtotal
    /\ (v.discount_type = "percentage" /\ v.max_discount_amount # NULL)
         => d <= v.max_discount_amount

\* C10: the discount apply_voucher, get_cart and create_order compute is never
\* negative, never above the cart subtotal for a fixed_amount voucher and never
\* above max_discount_amount for a percentage voucher that has one.
ComputedDiscountInBounds ==
    [][\A s \in Sessions :
         LET user == CurrentUser(s)
             subtotal == CartTotal(CartOf(s, user), products)
             slot == session'[s].applied_voucher
         IN /\ (last'.session = s /\ last'.status = 200 /\ slot # NoSlot
                 /\ last'.op \in {"apply_voucher", "get_cart"})
               => DiscountInBounds(slot.discount_amount, vouchers[slot.voucher_code], subtotal)
            /\ (last'.session = s /\ last'.status = 200 /\ last'.op = "process_payment"
                 /\ Len(orders') = Len(orders) + 1
                 /\ orders'[Len(orders')].created_by = "create_order"
                 /\ orders'[Len(orders')].voucher_code # "NONE")
               => DiscountInBounds(orders'[Len(orders')].voucher_discount,
                                   vouchers[orders'[Len(orders')].voucher_code], subtotal)]_vars

\* the shipping statuses in which the customer may cancel
Cancellable == {"PROCESSING", "PREPARING_FOR_SHIPMENT"}

\* the terminal shipping statuses
Terminal == {"DELIVERED", "COLLECTED", "CANCELLED", "DELIVERY_FAILED"}

\* h is g with entries appended
IsPrefix(g, h) == Len(g) <= Len(h) /\ \A i \in DOMAIN g : h[i] = g[i]

\* C11: cancel_order succeeds only while the shipping status is PROCESSING or
\* PREPARING_FOR_SHIPMENT; in every other status it is rejected with an error
\* and the order, the stock and the history stay as they were.
CancelOnlyBeforeShipment ==
    [][last'.op = "cancel_order" =>
         /\ \A o \in DOMAIN orders :
               orders[o].shipping_status \notin Cancellable => orders'[o] = orders[o]
         /\ last'.status = 200 =>
               \E o \in DOMAIN orders :
                   orders[o].shipping_status \in Cancellable /\ orders'[o] # orders[o]
         /\ last'.status # 200 => UNCHANGED <<orders, products>>]_vars

\* C12: when cancel_order or update_shipping_status puts an order in shipping
\* status CANCELLED, its payment status becomes REFUNDED if it was PAID and
\* CANCELLED otherwise, the quantity of every line is added back to the stock
\* and a CANCELLED history event is appended.
CancellationSideEffects ==
    [][\A o \in DOMAIN orders :
         (/\ last'.op \in {"cancel_order", "update_order_status"}
          /\ orders'[o] # orders[o]
          /\ orders'[o].shipping_status = "CANCELLED")
         => /\ orders'[o].payment_status =
                  (IF orders[o].payment_status = "PAID" THEN "REFUNDED" ELSE "CANCELLED")
            /\ \A p \in Products :
                  products'[p].product_quantity
                      = products[p].product_quantity + ItemQty(orders[o], p)
            /\ Len(orders'[o].history) = Len(orders[o].history) + 1
            /\ IsPrefix(orders[o].history, orders'[o].history)
            /\ orders'[o].history[Len(orders'[o].history)].status = "CANCELLED"]_vars

\* C12 witness: a paid order has been cancelled and is REFUNDED
CancellationRefundWitness ==
    /\ last.op \in {"cancel_order", "update_order_status"}
    /\ \E o \in DOMAIN orders :
          /\ orders[o].shipping_status = "CANCELLED"
          /\ orders[o].payment_status = "REFUNDED"
          /\ orders[o].history[Len(orders[o].history)].status = "CANCELLED"

\* C13: once the shipping status of an order is DELIVERED, COLLECTED, CANCELLED
\* or DELIVERY_FAILED, no operation changes it
TerminalStatusIsFinal ==
    [][\A o \in DOMAIN orders :
         orders[o].shipping_status \in Terminal
         => orders'[o].shipping_status = orders[o].shipping_status]_vars

\* the payment-received entries of a history
PaymentReceived(h) == {i \in DOMAIN h : h[i].status = "PAID" /\ h[i].notes = "Payment received on collection"}

PlainStatusUpdateHasNoSideEffects ==
    [][(last'.op = "update_order_status" /\ last'.status = 200) =>
         \A o \in DOMAIN orders :
            orders'[o] # orders[o] =>
               /\ orders'[o].shipping_status \notin {"CANCELLED", "COLLECTED"}
                  => /\ orders'[o].payment_status = orders[o].payment_status
                     /\ UNCHANGED products
                     /\ Len(orders'[o].history) = Len(orders[o].history) + 1
               /\ (/\ orders'[o].shipping_status = "COLLECTED"
                   /\ orders[o].delivery_method # "Pickup Delivery")
                  => orders'[o].payment_status = orders[o].payment_status]_vars

\* C16: the history of an order only grows, and every operation that sets or
\* changes the shipping or payment status of an order appends an entry to it
HistoryAppendOnly ==
    [][\A o \in DOMAIN orders' :
         IF o \in DOMAIN orders
         THEN /\ IsPrefix(orders[o].history, orders'[o].history)
              /\ (\/ orders'[o].shipping_status # orders[o].shipping_status
                  \/ orders'[o].payment_status # orders[o].payment_status)
                 => Len(orders'[o].history) > Len(orders[o].history)
         ELSE Len(orders'[o].history) >= 1]_vars

\* the operations that change the status of an existing order
LifecycleOps == {"cancel_order", "update_order_status", "confirm_payment", "fail_payment"}

\* C18: a status-changing operation on an order that does not exist reports an
\* error, as do cancel_order by an account that owns no such order and a
\* status update by an admin who is not super admin; none of them changes an
\* order, the stock or a history.
MissingOrderIsReported ==
    [][/\ (Len(orders) = 0 /\ last'.op \in LifecycleOps)
          => (last'.status >= 400 /\ UNCHANGED <<orders, products>>)
       /\ \A s \in Sessions :
            (/\ last'.op = "cancel_order" /\ last'.session = s
             /\ \A o \in DOMAIN orders : orders[o].account_id # CurrentUser(s))
            => (last'.status >= 400 /\ UNCHANGED <<orders, products>>)
       /\ (\E o \in 1..MaxOrders, st \in StatusInputs : UpdateOrderStatus(FALSE, o, st))
            => (last'.status = 403 /\ UNCHANGED <<orders, products>>)]_vars

\* the methods process_payment sends to the payment gateway
GatewayMethods == {"Maya", "Credit/Debit Card"}

\* C17: every order is created with shipping status PROCESSING, and with
\* payment status PENDING when paid by cash on delivery and PAID when paid by
\* a gateway-routed method
InitialStatusByMethod ==
    [][\A o \in DOMAIN orders' :
         o \notin DOMAIN orders =>
            /\ orders'[o].shipping_status = "PROCESSING"
            /\ orders'[o].payment_method = "Cash on delivery (COD)"
                  => orders'[o].payment_status = "PENDING"
            /\ orders'[o].payment_method \in GatewayMethods
                  => orders'[o].payment_status = "PAID"]_vars

\* C19: no step changes the total price or a line's unit price of an existing
\* order, whatever the admin does to the catalog prices, and every line of a
\* new order holds the effective price its product has when it is created
UnitPriceSnapshot ==
    [][\A o \in DOMAIN orders' :
         IF o \in DOMAIN orders
         THEN /\ orders'[o].total_price = orders[o].total_price
              /\ orders'[o].items = orders[o].items
         ELSE \A i \in DOMAIN orders'[o].items :
                 orders'[o].items[i].unit_price
                     = EffectivePrice(products[orders'[o].items[i].product_id])]_vars

\* C20: every order has lines, an address that belongs to its account and,
\* when it is a pickup order, an existing store
OrderAddressBelongsToAccount ==
    \A o \in DOMAIN orders :
        /\ orders[o].address_id \in Addresses
        /\ AddressAccount[orders[o].address_id] = orders[o].account_id
        /\ Len(orders[o].items) >= 1
        /\ orders[o].delivery_method = "Pickup Delivery" => orders[o].pickup \in Stores

\* the voucher of the slot of session s fails one of the checks create_order
\* makes of it: missing, inactive, outside its validity window, already used
\* by the account, or at its usage limit
RevalidationFails(s) ==
    LET slot == session[s].applied_voucher
        v == vouchers[slot.voucher_code]
    IN /\ slot # NoSlot
       /\ \/ v = NoVoucher
          \/ ~v.is_active
          \/ now < v.valid_from
          \/ now > v.valid_until
          \/ UsageRows(slot.voucher_code, CurrentUser(s)) # {}
          \/ (Truthy(v.usage_limit) /\ v.usage_count >= v.usage_limit)

\* session s can place its order by cash on delivery
CanPlaceOrder(s) ==
    /\ CurrentUser(s) # NULL
    /\ session[s].checkoutDetails.deliveryMethod # "NONE"
    /\ CreateOrderCheck(ReadSnapshot(s, "Cash on delivery (COD)")) = "ok"

PlacedByStep ==
    {o \in DOMAIN orders' :
        \/ o \notin DOMAIN orders /\ orders'[o].created_by = "create_order"
        \/ /\ o \in DOMAIN orders /\ last'.op = "confirm_payment"
           /\ orders[o].payment_status = "PENDING" /\ orders'[o].payment_status = "PAID"}

\* C22: after a successful placement on either checkout path the cart of the
\* placing account is empty and the voucher slot of its session is cleared
PlacementClearsCartAndSlot ==
    [][\A o \in PlacedByStep :
         /\ cart_items'[orders'[o].account_id] = EmptyCart
         /\ \A s \in Sessions :
               session'[s].user_email = orders'[o].account_id
               => session'[s].applied_voucher = NoSlot]_vars

\* C23: every pickup order was charged a shipping fee of 0, so that its total
\* is the subtotal of the cart it was created from minus its discount
PickupShippingIsFree ==
    [][\A o \in DOMAIN orders' :
         orders'[o].delivery_method = "Pickup Delivery"
         => /\ orders'[o].shipping_fee = 0
            /\ o \notin DOMAIN orders
               => orders'[o].total_price
                     = CartTotal(cart_items[orders'[o].account_id], products)
                       - orders'[o].voucher_discount]_vars

\* C23 witness: a pickup order of an address whose delivery fee is not 0
PickupShippingWitness ==
    \E o \in DOMAIN orders :
        /\ orders[o].delivery_method = "Pickup Delivery"
        /\ CalculateShippingFee(orders[o].address_id, "Standard Delivery") > 0
        /\ orders[o].shipping_fee = 0
        /\ orders[o].voucher_discount > 0

\* the current time is inside the half-open validity window of voucher code
InWindow(code) ==
    /\ vouchers[code] # NoVoucher
    /\ vouchers[code].valid_from <= now
    /\ now < vouchers[code].valid_until

\* C24: apply_voucher accepts a voucher, and create_order grants its discount,
\* only at a time from valid_from up to but not including valid_until
VoucherWindowHalfOpen ==
    [][/\ \A s \in Sessions :
            (last'.op = "apply_voucher" /\ last'.session = s /\ last'.status = 200)
            => InWindow(session'[s].applied_voucher.voucher_code)
       /\ \A o \in DOMAIN orders' :
            (/\ o \notin DOMAIN orders
             /\ orders'[o].created_by = "create_order"
             /\ orders'[o].voucher_code # "NONE")
            => InWindow(orders'[o].voucher_code)]_vars

\* C25: every product whose sale price is set has a sale price strictly less
\* than its list price
SalePriceBelowListPrice ==
    \A p \in Products :
        products[p].product_discount_price # NULL
        => products[p].product_discount_price < products[p].product_price

\* C26: every pickup order has its pickup assignment, of an existing store,
\* and every order with another delivery method has none
PickupAssignmentMatchesMethod ==
    \A o \in DOMAIN orders :
        IF orders[o].delivery_method = "Pickup Delivery"
        THEN orders[o].pickup \in Stores
        ELSE orders[o].pickup = NULL

\* C26 witness: a pickup order on the gateway path with its store
PickupAssignmentWitness ==
    \E o \in DOMAIN orders :
        /\ orders[o].delivery_method = "Pickup Delivery"
        /\ orders[o].created_by = "create_pending_order"
        /\ orders[o].pickup = 1

\* C27: a login adds the session cart to the persisted cart of the account,
\* product by product, and leaves the session cart empty
LoginMergesSessionCart ==
    [][\A s \in Sessions :
         (last'.op = "login" /\ last'.session = s /\ last'.status = 200)
         => /\ \A p \in Products :
                 cart_items'[session'[s].user_email][p]
                     = cart_items[session'[s].user_email][p] + session[s].cart[p]
            /\ session'[s].cart = EmptyCart]_vars

\* the history of the order shows a cancellation that restored its stock
RestoredBefore(order) ==
    \E i \in DOMAIN order.history :
        /\ order.history[i].status = "CANCELLED"
        /\ order.history[i].notes # "Payment failed or cancelled"

\* C28: a cancel_order or a status update to CANCELLED of an order whose
\* stock was restored before adds nothing to the stock again
StockRestoredOnce ==
    [][\A o \in DOMAIN orders :
         (/\ last'.op \in {"cancel_order", "update_order_status"}
          /\ orders'[o] # orders[o]
          /\ RestoredBefore(orders[o]))
         => \A p \in Products :
               products'[p].product_quantity = products[p].product_quantity]_vars

\* the line quantities of the order were taken from the stock: at its creation
\* by create_order, or at the confirmation of its payment
Deducted(order) ==
    \/ order.created_by = "create_order"
    \/ \E i \in DOMAIN order.history :
          order.history[i].notes = "Payment confirmed successfully"

\* the units of product p held by orders that are deducted and not cancelled
HeldQty(p) ==
    SumOver([o \in DOMAIN orders |->
                IF Deducted(orders[o]) /\ orders[o].shipping_status # "CANCELLED"
                THEN ItemQty(orders[o], p) ELSE 0],
            DOMAIN orders)

\* C29: without admin stock edits, the stock of each product plus the units
\* held by orders that are deducted and not cancelled is its initial stock
StockConserved ==
    \A p \in Products : products[p].product_quantity + HeldQty(p) = SeedStock[p]

\* C30: the shipping fee charged on an order is the fee of its own address
\* and delivery method: 0 for pickup, what calculate_shipping_fee gives otherwise
OrderFeeMatchesAddress ==
    \A o \in DOMAIN orders :
        orders[o].shipping_fee =
            IF orders[o].delivery_method = "Pickup Delivery" THEN 0
            ELSE CalculateShippingFee(orders[o].address_id, orders[o].delivery_method)

====
